---- MODULE Spec2Model ----
(***************************************************************************)
(* Model of the private-blockchain ledger engine (class Blockchain of      *)
(* src/src/blockchain.js) as a state machine.  Every public method is an   *)
(* action; submitStar is split at its one asynchronous boundary (the       *)
(* `.then` callback registered on the validateChain promise), so calls     *)
(* issued together interleave their callbacks in any order.                *)
(***************************************************************************)
EXTENDS Integers, Sequences, FiniteSets, TLC

\* ------------------------------------------------------------------ bounds
MaxChain == 3          \* blocks the chain may grow to (genesis included)

\* ------------------------------------------------------- program constants
validElapsedTime == 300000   \* the literal submitStar compares timeElapsed to

\* ------------------------------------------------------------ input domains
Addresses == {"a1", "a2"}
Requesters == {"a1"}                \* addresses that ask for a challenge message
NoAddress == "none"                 \* block.address is undefined (genesis)
Stars == {<<65>>, <<233>>}          \* payload strings, as code points: "A", "e-acute"
Clock == {0, 301, 300001}           \* readings of the wall clock, in seconds
GenesisData == <<71>>               \* stands for { data: 'Genesis Block' }
NullHash == <<>>                    \* previousBlockHash / hash === null
NoSuchHash == <<0>>                 \* a hash no block has
NoMsg == [addr |-> NoAddress, ts |-> -1]
\* a message that is no string (a number, undefined): no timestamp is ever read
\* from it, the ts field only keeps the record shape
NotAString == [addr |-> NoAddress, ts |-> 999999]

\* ------------------------------------------------------------ PayloadCodec
RECURSIVE FlatMap2(_, _)
\* concatenation of Op-images of the elements of s; Op given as a function
FlatMap2(f, s) == IF s = <<>> THEN <<>> ELSE f[Head(s)] \o FlatMap2(f, Tail(s))

\* JSON.stringify of a string value built from characters needing no escape
JSONstringify(x) == <<34>> \o x \o <<34>>

\* Buffer.from(str): the UTF-8 bytes of the string
Utf8(s) ==
  FlatMap2([c \in 0..2047 |->
              IF c < 128 THEN <<c>>
              ELSE <<192 + (c \div 64), 128 + (c % 64)>>], s)

\* .toString('hex'): two hex digits per byte
ToHex(bytes) == FlatMap2([b \in 0..255 |-> <<b \div 16, b % 16>>], bytes)

\* new Block(data): body = Buffer.from(JSON.stringify(data)).toString('hex')
Block(data) ==
  [hash |-> NullHash, height |-> 0,
   body |-> [kind |-> "hex", v |-> ToHex(Utf8(JSONstringify(data)))],
   time |-> 0, previousBlockHash |-> NullHash, address |-> NoAddress]

RECURSIVE HexPairs(_)
HexPairs(h) ==
  IF Len(h) < 2 THEN <<>>
  ELSE LET code == 16 * h[1] + h[2]
       IN (IF code # 0 THEN <<code>> ELSE <<>>) \o HexPairs(Tail(Tail(h)))

\* hex2ascii: '' for anything that is not a string or a number, otherwise one
\* character per pair of hex digits (code 0 dropped)
hex2ascii(x) == IF x.kind # "hex" THEN <<>> ELSE HexPairs(x.v)

\* JSON.parse of a string literal; ok = FALSE stands for the SyntaxError thrown
JSONparse(s) ==
  IF Len(s) >= 2 /\ s[1] = 34 /\ s[Len(s)] = 34
  THEN [ok |-> TRUE, v |-> SubSeq(s, 2, Len(s) - 1)]
  ELSE [ok |-> FALSE, v |-> <<>>]

_hexToJSON(hexStr) == JSONparse(hex2ascii(hexStr))

\* ------------------------------------------------------------------ Hasher
\* SHA256(JSON.stringify(block)) taken while block.hash is still null: an
\* injective function of the serialized fields (ideal hash)
SHA256(block) ==
  <<block.height, block.body, block.time, block.previousBlockHash, block.address>>

\* Block.validate(): resolves true iff the recomputed hash equals the stored one
validate(block) == SHA256(block) = block.hash

\* ------------------------------------------------------- SignatureVerifier
\* a signature is the pair (signing key's address, signed message)
verify(message, address, signature) ==
  signature.key = address /\ signature.msg = message

\* ------------------------------------------------------------------- state
VARIABLES
  chain,      \* this.chain
  height,     \* this.height
  now,        \* the wall clock in seconds (new Date().getTime() sans millis)
  pending,    \* submitStar calls whose validateChain callback has not run yet
  issued,     \* history: address -> message last returned by requestMessage...
  settled,    \* history: submitStar callbacks that ran to their end so far
  anyFailed,  \* history: one of them was rejected
  initPending, \* the constructor's initializeChain() has not resumed after its await
  hung,       \* submitStar calls whose callback ended without settling the promise
  vc          \* the validateChain call in flight, at microtask grain (see MicroSpec)

vars == <<chain, height, now, pending, issued, settled, anyFailed, initPending,
          hung, vc>>

\* ---------------------------------------------------------- validateChain
RECURSIVE validateLoop(_, _)
\* the entries pushed by the for-loop of validateChain from index i on (1-based
\* position i is chain[i-1] of the source); -1 stands for `undefined`, the value
\* of previousuBlockMessage.height
validateLoop(ch, i) ==
  IF i > Len(ch) THEN <<>>
  ELSE (IF validate(ch[i]) THEN <<ch[i].height>> ELSE <<>>)
       \o (IF validate(ch[i - 1]) THEN <<-1>> ELSE <<>>)
       \o validateLoop(ch, i + 1)

\* the list validateChain resolves with, as its consumer's callback sees it
validateChainLog(ch) == validateLoop(ch, 2)

\* ---------------------------------------------------------------- _addBlock
\* previousBlockHash assigned by _addBlock
_addBlockPrevHashWrong(ch) == IF Len(ch) > 0 THEN ch[1].hash ELSE NullHash
_addBlockPrevHash(ch) == IF Len(ch) > 0 THEN ch[Len(ch)].hash ELSE NullHash

\* the block as _addBlock pushes it onto chain ch at clock t
_addBlock(ch, block, t) ==
  LET b1 == [block EXCEPT !.height = Len(ch) + 1, !.time = t,
                          !.previousBlockHash = _addBlockPrevHash(ch)]
  IN [b1 EXCEPT !.hash = SHA256(b1)]

\* ---------------------------------------------------------- initializeChain
\* the chain as initializeChain leaves it when it yields at its `await`: the
\* executor of _addBlock has no await of its own, so the push is already done
initializeChainDeferred(ch, h, t) == ch
initializeChainSync(ch, h, t) ==
  IF h = -1 THEN Append(ch, _addBlock(ch, Block(GenesisData), t)) ELSE ch

\* no validateChain call is in flight
NoValidation == [active |-> FALSE, errorLog |-> <<>>, thens |-> <<>>]

\* ------------------------------------------------------------------- Init
\* the state when `new Blockchain()` returns: initializeChain has run
\* synchronously up to its await, and its continuation is queued
Init ==
  /\ now = 0
  /\ chain = initializeChainSync(<<>>, -1, 0)
  /\ initPending = TRUE
  /\ height = -1
  /\ pending = {}
  /\ issued = [a \in Addresses |-> NoMsg]
  /\ settled = 0
  /\ anyFailed = FALSE
  /\ hung = {}
  /\ vc = NoValidation

\* ----------------------------------------------------------------- helpers
\* room left for one more block once every pending callback has appended its own
Room == Len(chain) + Cardinality(pending) < MaxChain

\* ---------------------------------------------------------------- the clock
\* time passes between operations
Tick ==
  /\ ~ initPending
  /\ \E t \in Clock : t > now /\ now' = t
  /\ UNCHANGED <<chain, height, pending, issued, settled, anyFailed, initPending, hung, vc>>

\* public and re-callable; this.height is still -1, so the branch is taken
initializeChain ==
  /\ Room
  /\ chain' = initializeChainSync(chain, height, now)
  /\ UNCHANGED <<height, now, pending, issued, settled, anyFailed, initPending, hung, vc>>

\* the continuation of the constructor's initializeChain() after its await:
\* nothing is left to do
initializeChainResume ==
  /\ initPending
  /\ initPending' = FALSE
  /\ UNCHANGED <<chain, height, now, pending, issued, settled, anyFailed, hung, vc>>

\* ------------------------------------------------------------ getChainHeight
\* the value the promise resolves with
getChainHeightResult == height

getChainHeight ==
  /\ getChainHeightResult \in Int
  /\ UNCHANGED vars

\* ------------------------------------- requestMessageOwnershipVerification
\* the message the promise resolves with
requestMessageOwnershipVerificationResult(address) == [addr |-> address, ts |-> now]

requestMessageOwnershipVerification(address) ==
  /\ issued' = [issued EXCEPT ![address] = requestMessageOwnershipVerificationResult(address)]
  /\ UNCHANGED <<chain, height, now, pending, settled, anyFailed, initPending, hung, vc>>

\* ---------------------------------------------------------------- submitStar
\* messages a caller may submit for an address: the one issued to it last, and
\* well-formed ones stamped with the construction time or with `now`
Messages(address) ==
  ({issued[address]} \ {NoMsg})
  \cup {[addr |-> address, ts |-> t] : t \in {0, now}}

\* the synchronous part of the call: validateChain() runs and its result is
\* fixed; the rest waits in the `.then` callback
submitStarCall(address, message, signature, star) ==
  /\ Room
  /\ LET c == [address |-> address, message |-> message,
               signature |-> signature, star |-> star,
               errorLog |-> validateChainLog(chain)]
     IN /\ c \notin pending
        /\ pending' = pending \cup {c}
  /\ UNCHANGED <<chain, height, now, issued, settled, anyFailed, initPending, hung, vc>>

\* what the `.then` callback of lines 136-155 does, statement by statement, at
\* clock t: no reject is followed by a return, so the callback runs on; only
\* message.split, called on a message that is no string, ends it (a TypeError
\* thrown inside the callback, which the try/catch around `.then` never sees)
submitStarSteps(c, t) ==
  (IF Len(c.errorLog) > 0 THEN <<"reject errorLog">> ELSE <<>>)
  \o (IF c.message = NotAString THEN <<"throw TypeError">>
      ELSE (IF t - c.message.ts > validElapsedTime
            THEN <<"reject time elapsed">> ELSE <<>>)
           \o <<"verify">>
           \o (IF ~ verify(c.message, c.address, c.signature)
               THEN <<"reject signature">> ELSE <<>>)
           \o <<"_addBlock", "resolve">>)

\* some step of the callback is the statement `what`
Does(steps, what) == \E k \in DOMAIN steps : steps[k] = what

\* the settled state of the submitStar promise: the first reject/resolve wins;
\* "pending" when the callback ended before any reject or resolve
submitStarOutcome(c, t) ==
  IF Len(c.errorLog) > 0 THEN "rejected: errorLog"
  ELSE IF c.message = NotAString THEN "pending"
  ELSE IF t - c.message.ts > validElapsedTime THEN "rejected: time elapsed"
  ELSE IF ~ verify(c.message, c.address, c.signature)
       THEN "rejected: can not verify signature"
  ELSE "resolved"

\* the `.then` callback of lines 136-155: no reject returns, so every path
\* that gets past message.split goes on to `this._addBlock(block)`
submitStarCallback(c) ==
  LET block == [Block(c.star) EXCEPT !.address = c.address]
      steps == submitStarSteps(c, now)
      outcome == submitStarOutcome(c, now)
  IN /\ pending' = pending \ {c}
     /\ chain' = IF Does(steps, "_addBlock")
                 THEN Append(chain, _addBlock(chain, block, now))
                 ELSE chain
     /\ settled' = IF Does(steps, "resolve") THEN settled + 1 ELSE settled
     /\ anyFailed' = (anyFailed \/ outcome # "resolved")
     /\ hung' = IF outcome = "pending" THEN hung \cup {c} ELSE hung
     /\ UNCHANGED <<height, now, issued, initPending, vc>>

\* ------------------------------------------------------ _construcDuplicateBlock
\* ok = FALSE stands for the SyntaxError thrown by _hexToJSON
_construcDuplicateBlock(block) ==
  LET p == _hexToJSON(block.body)
      responseBlock == Block(p.v)
      q == _hexToJSON(responseBlock.body)
  IN IF ~ p.ok \/ ~ q.ok THEN [ok |-> FALSE, block |-> block]
     ELSE [ok |-> TRUE,
           block |-> [responseBlock EXCEPT
                        !.hash = block.hash,
                        !.previousBlockHash = block.previousBlockHash,
                        !.time = block.time,
                        !.height = block.height,
                        !.body = [kind |-> "obj", v |-> q.v]]]

\* positions of the blocks chain.filter(pred) keeps, in chain order
Filter(ch, Pred(_)) == {i \in 1..Len(ch) : Pred(ch[i])}
First(S) == CHOOSE i \in S : \A j \in S : i <= j

\* what a promise settles with: how, and the block view it carries (if any)
Settled(outcome, r) == [outcome |-> outcome, view |-> r]
NoView == Block(<<>>)

\* -------------------------------------------------------------- getBlockByHash
getBlockByHashResult(hash) ==
  LET result == Filter(chain, LAMBDA b : b.hash = hash)
  IN IF result # {}
     THEN LET r == _construcDuplicateBlock(chain[First(result)])
          IN IF r.ok THEN Settled("resolved", r.block)
             ELSE Settled("rejected: SyntaxError", NoView)
     ELSE Settled("rejected: No block found", NoView)

getBlockByHash(hash) ==
  /\ getBlockByHashResult(hash).outcome # ""
  /\ UNCHANGED vars

\* ------------------------------------------------------------ getBlockByHeight
getBlockByHeightResult(h) ==
  LET result == Filter(chain, LAMBDA b : b.height = h)
  IN IF result = {} THEN Settled("rejected: TypeError", NoView)
     ELSE IF chain[First(result)].height >= 0
     THEN LET r == _construcDuplicateBlock(chain[First(result)])
          IN IF r.ok THEN Settled("resolved", r.block)
             ELSE Settled("rejected: SyntaxError", NoView)
     ELSE Settled("resolved null", NoView)

getBlockByHeight(h) ==
  /\ getBlockByHeightResult(h).outcome # ""
  /\ UNCHANGED vars

\* ------------------------------------------------------ getStarsByWalletAddress
RECURSIVE decodeBodies(_, _, _)
\* result.forEach(r => r.body = this._hexToJSON(r.body)) from position i on:
\* the blocks are the stored objects themselves, so each assignment lands in
\* the chain; the first SyntaxError ends the loop
decodeBodies(ch, address, i) ==
  IF i > Len(ch) THEN [ok |-> TRUE, chain |-> ch]
  ELSE IF ch[i].address # address THEN decodeBodies(ch, address, i + 1)
  ELSE LET p == _hexToJSON(ch[i].body)
       IN IF ~ p.ok THEN [ok |-> FALSE, chain |-> ch]
          ELSE decodeBodies([ch EXCEPT ![i].body = [kind |-> "obj", v |-> p.v]],
                            address, i + 1)

\* a variant that resolves with the empty array when no block matches
getStarsByWalletAddressResultLenient(address) ==
  LET r == decodeBodies(chain, address, 1)
  IN [outcome |-> IF r.ok THEN "resolved" ELSE "rejected: SyntaxError",
      stars |-> IF r.ok THEN SelectSeq(r.chain, LAMBDA b : b.address = address)
                ELSE <<>>,
      chain |-> r.chain]

\* how the promise settles, the array it resolves with (the stored blocks of
\* the address, in chain order, bodies decoded) and what the call leaves in
\* this.chain
getStarsByWalletAddressResult(address) ==
  LET result == Filter(chain, LAMBDA b : b.address = address)
      r == decodeBodies(chain, address, 1)
  IN IF result # {}
     THEN [outcome |-> IF r.ok THEN "resolved" ELSE "rejected: SyntaxError",
           stars |-> IF r.ok
                     THEN SelectSeq(r.chain, LAMBDA b : b.address = address)
                     ELSE <<>>,
           chain |-> r.chain]
     ELSE [outcome |-> "rejected: No block found", stars |-> <<>>,
           chain |-> chain]

getStarsByWalletAddress(address) ==
  /\ chain' = getStarsByWalletAddressResult(address).chain
  /\ UNCHANGED <<height, now, pending, issued, settled, anyFailed, initPending, hung, vc>>

\* ---------------------------------------------------------------- validateChain
validateChain ==
  /\ Len(validateChainLog(chain)) >= 0
  /\ UNCHANGED vars

\* -------------------------------------------------------------------- Next
Next ==
  \/ Tick
  \/ initializeChain
  \/ initializeChainResume
  \/ getChainHeight
  \/ \E a \in Requesters : requestMessageOwnershipVerification(a)
  \/ \E a \in Addresses, k \in Addresses, s \in Stars :
       \E m \in Messages(a) :
         submitStarCall(a, m, [key |-> k, msg |-> m], s)
  \/ \E a \in Requesters :
       submitStarCall(a, NotAString, [key |-> a, msg |-> NotAString], <<65>>)
  \/ \E c \in pending : submitStarCallback(c)
  \/ \E hash \in {chain[Len(chain)].hash, NoSuchHash} : getBlockByHash(hash)
  \/ \E h \in {0, Len(chain)} : getBlockByHeight(h)
  \/ \E a \in Addresses : getStarsByWalletAddress(a)
  \/ validateChain

Spec == Init /\ [][Next]_vars

\* ------------------------------------------- validateChain at microtask grain
\* the executor of validateChain: the loop starts every block.validate() and
\* registers a `.then` on each, then `return resolve(errorLog)` settles the
\* promise with the array as it is, still empty; `thens` are the entries the
\* registered callbacks will push once the executor has returned
validateChainExecutor ==
  /\ ~ vc.active
  /\ vc' = [active |-> TRUE, errorLog |-> <<>>,
            thens |-> validateChainLog(chain)]
  /\ UNCHANGED <<chain, height, now, pending, issued, settled, anyFailed,
                 initPending, hung>>

\* the next `.then` callback of the loop runs: errorLog.push(...)
validateChainThen ==
  /\ vc.active
  /\ vc.thens # <<>>
  /\ vc' = [vc EXCEPT !.errorLog = Append(@, Head(vc.thens)),
                      !.thens = Tail(@)]
  /\ UNCHANGED <<chain, height, now, pending, issued, settled, anyFailed,
                 initPending, hung>>

\* the caller's own `.then` runs after them and takes the list
validateChainConsumer ==
  /\ vc.active
  /\ vc.thens = <<>>
  /\ vc' = NoValidation
  /\ UNCHANGED <<chain, height, now, pending, issued, settled, anyFailed,
                 initPending, hung>>

\* microtasks run before anything else does
MicroNext ==
  \/ ~ vc.active /\ Next
  \/ validateChainExecutor
  \/ validateChainThen
  \/ validateChainConsumer

MicroSpec == Init /\ [][MicroNext]_vars

\* ======================================================================
\* Properties
\* ======================================================================
StarBlocks == {i \in 1..Len(chain) : chain[i].address # NoAddress}

\* the step in which the callback of the pending submitStar call c runs
Settles(c) == c \in pending /\ pending' = pending \ {c}

\* C1: in every reachable state every block at a chain position after the
\* first has previousBlockHash equal to the stored hash of the block before it.
C1_PreviousHashLinks ==
  \A i \in 2..Len(chain) : chain[i].previousBlockHash = chain[i - 1].hash

\* a chain of three blocks whose middle block a star query has already decoded
C1_Witness ==
  /\ Len(chain) = 3
  /\ chain[3].address \in Addresses
  /\ chain[2].body.kind = "obj"
  /\ chain[3].previousBlockHash = chain[2].hash
  /\ chain[3].previousBlockHash # chain[1].hash

\* C2: a submitStar whose message was issued more than 300 seconds before the
\* current time fails with the expired-challenge error instead of resolving.
C2_ExpiredChallengeRejected ==
  [][\A c \in pending :
       (Settles(c) /\ now - c.message.ts > 300)
         => /\ submitStarOutcome(c, now) = "rejected: time elapsed"
            /\ anyFailed']_vars

\* C3: when submitStar fails the time-window check, no block is appended: the
\* chain after the call is the chain before it.
C3_ExpiredAppendsNothing ==
  [][\A c \in pending :
       (Settles(c) /\ now - c.message.ts > validElapsedTime)
         => chain' = chain]_vars

\* C4: a submitStar whose signature does not verify fails with the
\* invalid-signature error and appends nothing.
C4_BadSignatureAppendsNothing ==
  [][\A c \in pending :
       (Settles(c) /\ ~ verify(c.message, c.address, c.signature))
         => /\ submitStarOutcome(c, now) = "rejected: can not verify signature"
            /\ chain' = chain]_vars

\* C5: submitStar appends a block only if the submitted message is the one
\* most recently issued to that address by requestMessageOwnershipVerification.
C5_OnlyLatestIssuedMessageAppends ==
  [][\A c \in pending :
       (Settles(c) /\ chain' # chain) => c.message = issued[c.address]]_vars

\* C6: after N (two or more) submitStar calls that all succeeded, none still
\* pending, the chain holds exactly N star blocks, no two of them share a
\* height or a previousBlockHash, and validateChain returns an empty list.
C6_ConcurrentSubmitsNoFork ==
  (pending = {} /\ ~ anyFailed /\ settled >= 2)
    => /\ Cardinality(StarBlocks) = settled
       /\ \A i, j \in StarBlocks :
            i # j => /\ chain[i].height # chain[j].height
                     /\ chain[i].previousBlockHash # chain[j].previousBlockHash
       /\ validateChainLog(chain) = <<>>

\* C7: the block stored at chain position i (counted from 0) has height i.
C7_HeightIsPosition ==
  \A i \in 1..Len(chain) : chain[i].height = i - 1

\* C8: getChainHeight resolves with the number of blocks in the chain minus 1.
C8_ChainHeightIsLengthMinusOne ==
  getChainHeightResult = Len(chain) - 1

\* C9: in every reachable state, read queries included, every stored block's
\* hash equals the hash recomputed over its stored fields other than hash.
C9_StoredHashMatchesFields ==
  \A i \in 1..Len(chain) : chain[i].hash = SHA256(chain[i])

\* C10: once a block has been appended no operation changes any of its fields.
C10_AppendedBlocksImmutable ==
  [][\A i \in 1..Len(chain) : chain'[i] = chain[i]]_vars

\* C11: in every state getBlockByHeight(0) resolves with the genesis block:
\* the marker payload, previousBlockHash null and no owner address.
C11_HeightZeroIsGenesis ==
  LET r == getBlockByHeightResult(0)
  IN /\ r.outcome = "resolved"
     /\ r.view.body = [kind |-> "obj", v |-> GenesisData]
     /\ r.view.previousBlockHash = NullHash
     /\ r.view.address = NoAddress

GenesisBlocks == {i \in 1..Len(chain) : chain[i].address = NoAddress}

\* C12: initializeChain is idempotent: however often it is called, the chain
\* has exactly one genesis block.
C12_ExactlyOneGenesis ==
  Cardinality(GenesisBlocks) = 1

\* C13: the genesis block is in the chain when the constructor returns: no
\* operation, in any interleaving with the pending initialization promise,
\* sees a chain with zero blocks.
C13_NeverEmpty ==
  Len(chain) >= 1 /\ chain[1].address = NoAddress

\* a submitStar has settled while the constructor's initializeChain() was
\* still waiting to resume
C13_Witness ==
  /\ initPending
  /\ settled >= 1
  /\ Len(chain) >= 2
  /\ chain[1].address = NoAddress

\* every block's recomputed hash matches and every link is right
Consistent(ch) ==
  /\ \A i \in 1..Len(ch) : validate(ch[i])
  /\ \A i \in 2..Len(ch) : ch[i].previousBlockHash = ch[i - 1].hash

\* ch with the link of block i broken and the block's hash recomputed, so
\* that the block stays self-consistent
BreakLink(ch, i) ==
  LET b == [ch[i] EXCEPT !.previousBlockHash = NoSuchHash]
  IN [ch EXCEPT ![i] = [b EXCEPT !.hash = SHA256(b)]]

\* ch with the stored payload of block i altered and nothing else changed
TamperBody(ch, i) == [ch EXCEPT ![i].body.v = Append(@, 1)]

\* C14: validateChain returns an empty list if and only if every block's
\* recomputed hash matches its stored hash and every non-genesis block's
\* previousBlockHash is the stored hash of the block before it; a broken link
\* between two self-consistent blocks gives a non-empty list.
C14_EmptyListIffConsistent ==
  /\ (validateChainLog(chain) = <<>>) <=> Consistent(chain)
  /\ \A i \in 2..Len(chain) : validateChainLog(BreakLink(chain, i)) # <<>>

\* C15: if the stored payload of exactly one appended block at height h of a
\* consistent chain is altered, validateChain reports exactly one violation,
\* and it names height h.
C15_TamperReportedOnceAtItsHeight ==
  Consistent(chain) =>
    \A i \in 1..Len(chain) :
      LET log == validateChainLog(TamperBody(chain, i))
      IN Len(log) = 1 /\ log[1] = chain[i].height

\* C16: getBlockByHash with a hash no block has, and getBlockByHeight with a
\* height outside the chain, both settle as not found (no thrown failure).
C16_MissingBlockIsNotFound ==
  /\ getBlockByHashResult(NoSuchHash).outcome = "rejected: No block found"
  /\ \A h \in {-1, Len(chain) + 1} :
       getBlockByHeightResult(h).outcome = "resolved null"

OwnsNone(address) == \A i \in 1..Len(chain) : chain[i].address # address

C18_ExactlyTheOwnersBlocksInOrder ==
  \A a \in Addresses :
    ~ OwnsNone(a) =>
      LET r == getStarsByWalletAddressResult(a)
          own == SelectSeq(chain, LAMBDA b : b.address = a)
      IN /\ r.outcome = "resolved"
         /\ Len(r.stars) = Len(own)
         /\ \A k \in 1..Len(own) :
              /\ r.stars[k].hash = own[k].hash
              /\ r.stars[k].address = a
         /\ \A k \in 2..Len(own) : r.stars[k - 1].height < r.stars[k].height

\* C19: for every payload x appended by a successful submitStar,
\* getBlockByHash on the block's hash returns a view whose payload is x and
\* whose height, time, hash and previousBlockHash are the stored block's.
C19_ViewRoundTripsPayload ==
  ~ anyFailed =>
    \A i \in StarBlocks : \A x \in Stars :
      chain[i].body = Block(x).body =>
        LET r == getBlockByHashResult(chain[i].hash)
        IN /\ r.outcome = "resolved"
           /\ r.view.body = [kind |-> "obj", v |-> x]
           /\ r.view.height = chain[i].height
           /\ r.view.time = chain[i].time
           /\ r.view.hash = chain[i].hash
           /\ r.view.previousBlockHash = chain[i].previousBlockHash

\* C20: the view getBlockByHash and getBlockByHeight return for a block
\* carries the owner address of its submitter; the genesis view carries none.
C20_ViewCarriesOwnerAddress ==
  \A i \in 1..Len(chain) :
    LET r == getBlockByHashResult(chain[i].hash)
        q == getBlockByHeightResult(chain[i].height)
    IN /\ r.outcome = "resolved" => r.view.address = chain[i].address
       /\ q.outcome = "resolved" => q.view.address = chain[i].address

\* C21: submitStar starts its append step only after the chain-integrity
\* check, the time-window check and the signature check have all passed; when
\* validateChain reported a violation, nothing is appended.
C21_AppendOnlyAfterAllChecksPass ==
  [][\A c \in pending :
       (Settles(c) /\ Len(chain') > Len(chain))
         => /\ c.errorLog = <<>>
            /\ now - c.message.ts <= validElapsedTime
            /\ verify(c.message, c.address, c.signature)]_vars

\* C22: when the time-window check of a submitStar call fails, the signature
\* verifier is not invoked for that call.
C22_NoVerifyAfterExpiry ==
  [][\A c \in pending :
       (Settles(c) /\ Does(submitStarSteps(c, now), "reject time elapsed"))
         => ~ Does(submitStarSteps(c, now), "verify")]_vars

\* C23: once the validateChain promise has resolved, no violation is added to
\* the list it resolved with.
C23_NoPushAfterResolve ==
  [][(vc.active /\ vc'.active) => vc'.errorLog = vc.errorLog]_vars

\* C24: no call stays pending forever.  Every promise but submitStar's is
\* settled inside its executor, and submitStar's only by its callback, which
\* runs once: a call stays pending forever exactly when that callback has
\* ended without settling it.
C24_NoCallLeftPending == hung = {}

\* C25: getStarsByWalletAddress is repeatable: after a successful call the same
\* call succeeds again with an equal result, and getBlockByHash and
\* validateChain give what they gave before it.
C25_StarsQueryRepeatable ==
  [][\A a \in Addresses :
       (/\ getStarsByWalletAddressResult(a).outcome = "resolved"
        /\ chain' = getStarsByWalletAddressResult(a).chain
        /\ UNCHANGED <<height, now, pending, issued, settled, anyFailed,
                       initPending, hung, vc>>)
         => /\ getStarsByWalletAddressResult(a)'.outcome = "resolved"
            /\ getStarsByWalletAddressResult(a)'.stars
                 = getStarsByWalletAddressResult(a).stars
            /\ \A i \in 1..Len(chain) :
                 getBlockByHashResult(chain[i].hash)'
                   = getBlockByHashResult(chain[i].hash)
            /\ validateChainLog(chain') = validateChainLog(chain)]_vars

====
